---- MODULE Spec2Model ----
(***************************************************************************)
(* A model of the BMC orchestration pass (lib/seahorn/BmcPass.cc) and of   *)
(* the counterexample harness synthesizer (lib/seahorn/Harness.cc).        *)
(*                                                                         *)
(* SpecBmc     : BmcPass::runOnFunction on one procedure.                  *)
(* SpecHarness : createLLVMHarness on one trace, then runs of the stubs.   *)
(* SpecConv    : the same machine on traces that exercise exprToLlvm.      *)
(***************************************************************************)
EXTENDS Integers, Sequences, FiniteSets, TLC

\* ---------------------------------------------------------------- bounds
\* Largest number of basic blocks of the analysed procedure.
MaxBlocks == 3
\* Largest number of instructions on a counterexample trace.
MaxInstrs == 2
\* Largest number of stub invocations when the harness is run.
MaxInvoke == 3

VARIABLES
  \* ---- BmcPass
  F,              \* the procedure: its basic blocks in layout order
  m_engine,       \* BmcPass::m_engine
  m_out,          \* BmcPass::m_out is not nullptr
  m_solve,        \* BmcPass::m_solve
  HAVE_CRAB_LLVM, \* the build was configured with crab-llvm
  pc,             \* position inside runOnFunction
  dst,            \* index of the block of *dst, 0 for nullptr
  errs,           \* lines written to errs()
  sem,            \* BvSmallSymExec objects constructed
  zctx,           \* EZ3 contexts constructed
  bmc,            \* engines constructed, in order
  cps,            \* blocks registered by addCutPoint, in order
  log,            \* calls made on the engine, in order
  res,            \* the tribool returned by bmc->solve()
  outs,           \* chunks written to outs()
  stats,          \* Stats::sset calls, in order
  ret,            \* value returned by runOnFunction ("none" while running)
  \* ---- Harness
  trace,          \* the BmcTrace: per step, the block's instructions, each
                  \* with the value trace.eval(loc, I) gives for it
  NDEBUG,         \* the build has LLVM's assertions compiled out
  hpc,            \* position of createLLVMHarness: "start", "done", "abort"
  FuncValueMap,   \* the map filled by the scan of the trace
  Harness,        \* the module returned by createLLVMHarness
  mem,            \* run of the harness: current value of each global
  ninv,           \* run of the harness: invocations of each function so far
  lastCall,       \* run of the harness: the latest call of a value provider
  herrs           \* lines createLLVMHarness wrote to errs()

bmcVars == <<F, m_engine, m_out, m_solve, HAVE_CRAB_LLVM, pc, dst, errs, sem,
             zctx, bmc, cps, log, res, outs, stats, ret>>

hVars == <<trace, NDEBUG, hpc, FuncValueMap, Harness, mem, ninv, lastCall,
           herrs>>

vars == <<bmcVars, hVars>>

\* ================================================================ BmcPass

\* A basic block as runOnFunction sees it: whether its terminator is a
\* ReturnInst, whether cpg.isCutPoint(bb), and whether the cut-point graph
\* has an edge from the entry cut point to this block's cut point.
BasicBlocks == [ret : BOOLEAN, cp : BOOLEAN, edge : BOOLEAN]

\* Procedures: a non-empty block list whose entry block is a cut point
\* (cpg.getCp(F.getEntryBlock()) is taken unconditionally).
Procedures ==
  { bbs \in UNION { [1..n -> BasicBlocks] : n \in 1..MaxBlocks } : bbs[1].cp }

\* boost::tribool
Tribool == {"true", "false", "indeterminate"}

\* tribool -> bool conversion: true only for the value true.
TriToBool(t) == t = "true"

\* Variant: negation as for a two-valued bool.
TriNotTwoValued(t) == IF t = "true" THEN "false" ELSE "true"

\* operator! on tribool: indeterminate stays indeterminate.
TriNot(t) == CASE t = "true" -> "false"
               [] t = "false" -> "true"
               [] OTHER -> "indeterminate"

\* Variant: the loop without its break keeps the last match.
FindDstLast(bbs) ==
  LET hits == { i \in 1..Len(bbs) : bbs[i].ret /\ bbs[i].cp }
  IN  IF hits = {} THEN 0 ELSE CHOOSE i \in hits : \A j \in hits : i >= j

\* The loop of lines 94-99: the first block, in layout order, that ends in a
\* return and is a cut point; 0 when there is none.
FindDst(bbs) ==
  LET hits == { i \in 1..Len(bbs) : bbs[i].ret /\ bbs[i].cp }
  IN  IF hits = {} THEN 0 ELSE CHOOSE i \in hits : \A j \in hits : i <= j

NeverReturns == "WARNING: BmcPass: function never returns"

\* Variant: the cpg.getEdge(src, *dst) test of line 107 is missing.
SelectCutPointsNoEdgeTest ==
  /\ pc = "start"
  /\ LET d == FindDst(F) IN
       /\ dst' = d
       /\ IF d = 0
            THEN /\ errs' = Append(errs, NeverReturns)
                 /\ ret' = FALSE
                 /\ pc' = "done"
            ELSE /\ pc' = "selected"
                 /\ UNCHANGED <<errs, ret>>
  /\ UNCHANGED <<F, m_engine, m_out, m_solve, HAVE_CRAB_LLVM, sem, zctx, bmc,
                 cps, log, res, outs, stats>>
  /\ UNCHANGED hVars

\* Lines 89-111: pick src/dst and give up on a procedure that never returns.
SelectCutPoints ==
  /\ pc = "start"
  /\ LET d == FindDst(F) IN
       /\ dst' = d
       /\ IF d = 0 \/ ~F[d].edge
            THEN /\ errs' = Append(errs, NeverReturns)
                 /\ ret' = FALSE
                 /\ pc' = "done"
            ELSE /\ pc' = "selected"
                 /\ UNCHANGED <<errs, ret>>
  /\ UNCHANGED <<F, m_engine, m_out, m_solve, HAVE_CRAB_LLVM, sem, zctx, bmc,
                 cps, log, res, outs, stats>>
  /\ UNCHANGED hVars

\* The engine the switch of lines 118-132 constructs.
NewEngine(engine, crab) ==
  IF engine = "path_bmc"
    THEN [kind |-> "PathBasedBmcEngine", crab |-> crab, tli |-> TRUE]
    ELSE [kind |-> "BmcEngine", crab |-> FALSE, tli |-> FALSE]

\* Lines 113-132: expression factory, semantics, solver context and engine.
Construct ==
  /\ pc = "selected"
  /\ sem' = sem + 1
  /\ zctx' = zctx + 1
  /\ bmc' = Append(bmc, NewEngine(m_engine, HAVE_CRAB_LLVM))
  /\ pc' = "constructed"
  /\ UNCHANGED <<F, m_engine, m_out, m_solve, HAVE_CRAB_LLVM, dst, errs, cps,
                 log, res, outs, stats, ret>>
  /\ UNCHANGED hVars

\* Lines 135-136: bmc->addCutPoint(src); bmc->addCutPoint(*dst).
AddCutPoints ==
  /\ pc = "constructed"
  /\ cps' = cps \o <<1, dst>>
  /\ pc' = "registered"
  /\ UNCHANGED <<F, m_engine, m_out, m_solve, HAVE_CRAB_LLVM, dst, errs, sem,
                 zctx, bmc, log, res, outs, stats, ret>>
  /\ UNCHANGED hVars

\* The engine calls of lines 140-141.
EncodeCalls(out) == IF out THEN <<"encode", "toSmtLib">> ELSE <<"encode">>

\* Variant: the m_solve test of line 143 is missing.
EncodeThenAlwaysSolve ==
  /\ pc = "registered"
  /\ log' = log \o EncodeCalls(m_out)
  /\ pc' = "encoded"
  /\ UNCHANGED <<F, m_engine, m_out, m_solve, HAVE_CRAB_LLVM, dst, errs, sem,
                 zctx, bmc, cps, res, outs, stats, ret>>
  /\ UNCHANGED hVars

\* Lines 140-147: encode, serialize if there is a sink, stop if not solving.
Encode ==
  /\ pc = "registered"
  /\ log' = log \o EncodeCalls(m_out)
  /\ IF ~m_solve
       THEN ret' = FALSE /\ pc' = "done"
       ELSE pc' = "encoded" /\ UNCHANGED ret
  /\ UNCHANGED <<F, m_engine, m_out, m_solve, HAVE_CRAB_LLVM, dst, errs, sem,
                 zctx, bmc, cps, res, outs, stats>>
  /\ UNCHANGED hVars

\* Lines 149-151: the solver answers with a tribool.
Solve ==
  /\ pc = "encoded"
  /\ \E r \in Tribool : res' = r
  /\ log' = Append(log, "solve")
  /\ pc' = "solved"
  /\ UNCHANGED <<F, m_engine, m_out, m_solve, HAVE_CRAB_LLVM, dst, errs, sem,
                 zctx, bmc, cps, outs, stats, ret>>
  /\ UNCHANGED hVars

\* Lines 153-156: what is written to outs() for a result.
Verdict(r) ==
  <<IF TriToBool(r) THEN "sat"
    ELSE IF TriToBool(TriNot(r)) THEN "unsat"
    ELSE "unknown",
    "\n">>

\* Lines 158-159: the Result fact recorded for a result.
ResultFact(r) ==
  IF TriToBool(r) THEN <<<<"Result", "FALSE">>>>
  ELSE IF TriToBool(TriNot(r)) THEN <<<<"Result", "TRUE">>>>
  ELSE <<>>

\* Lines 153-180: print the verdict, record the fact, return false.
Report ==
  /\ pc = "solved"
  /\ outs' = outs \o Verdict(res)
  /\ stats' = stats \o ResultFact(res)
  /\ ret' = FALSE
  /\ pc' = "done"
  /\ UNCHANGED <<F, m_engine, m_out, m_solve, HAVE_CRAB_LLVM, dst, errs, sem,
                 zctx, bmc, cps, log, res>>
  /\ UNCHANGED hVars

\* ================================================================ Harness

\* ---- names and types

\* A name is the sequence of its characters.
npos == -1

\* StringRef::find_first_of(c): the 0-based index of the first c, or npos.
find_first_of(name, c) ==
  LET at == { i \in 1..Len(name) : name[i] = c }
  IN  IF at = {} THEN npos
      ELSE (CHOOSE i \in at : \A j \in at : i <= j) - 1

DigitChars == <<"0", "1", "2", "3", "4", "5", "6", "7", "8", "9">>

\* The decimal text of a natural number.
RECURSIVE Decimal(_)
Decimal(n) ==
  IF n < 10 THEN <<DigitChars[n + 1]>>
  ELSE Decimal(n \div 10) \o <<DigitChars[(n % 10) + 1]>>

RECURSIVE Pow2(_)
Pow2(w) == IF w = 0 THEN 1 ELSE 2 * Pow2(w - 1)

IntegerType(w) == [id |-> "integer", bits |-> w]
FloatType == [id |-> "float", bits |-> 0]

\* Type::print of an integer type: "i" and the width.
TypeText(ty) == <<"i">> \o Decimal(ty.bits)

\* ---- the analysed module's functions, as createLLVMHarness reads them:
\* name, linkage, whether it has a body, return type.
Functions ==
  { [name |-> <<"f">>, linkage |-> "external", body |-> FALSE,
     ret |-> IntegerType(8)],
    [name |-> <<"g">>, linkage |-> "external", body |-> FALSE,
     ret |-> IntegerType(8)],
    [name |-> <<"h">>, linkage |-> "external", body |-> FALSE,
     ret |-> IntegerType(1)],
    [name |-> <<"p">>, linkage |-> "external", body |-> FALSE,
     ret |-> FloatType],
    [name |-> <<"a", ".", "b">>, linkage |-> "external", body |-> FALSE,
     ret |-> IntegerType(8)],
    [name |-> <<"d">>, linkage |-> "internal", body |-> TRUE,
     ret |-> IntegerType(8)],
    [name |-> <<"e">>, linkage |-> "external", body |-> TRUE,
     ret |-> IntegerType(8)],
    [name |-> <<>>, linkage |-> "external", body |-> FALSE,
     ret |-> IntegerType(8)] }

\* getCalledFunction() of an indirect call.
NullFn == [name |-> <<"?">>, linkage |-> "none", body |-> FALSE,
           ret |-> FloatType]

\* ---- logical values (Expr)
NoValue == [op |-> "null", z |-> 0]
True == [op |-> "TRUE", z |-> 0]
False == [op |-> "FALSE", z |-> 0]
Mpz(z) == [op |-> "MPZ", z |-> z]
Unhandled == [op |-> "BVNUM", z |-> 0]

\* ---- exprToLlvm

\* An LLVM ConstantInt: type width and (unsigned) value; ok is FALSE when
\* building it stopped on a failed assertion.
ConstantInt(w, v) == [ok |-> TRUE, bits |-> w, val |-> v]
AssertionFailed == [ok |-> FALSE, bits |-> 0, val |-> 0]

\* mpz_class::get_str(): sign and decimal digits.
get_str(z) ==
  [neg |-> z < 0, digits |-> Decimal(IF z < 0 THEN 0 - z ELSE z)]

DigitOf(c) == CHOOSE d \in 0..9 : DigitChars[d + 1] = c

\* The digit loop of APInt::fromString in radix 10, at width w.
RECURSIVE ParseDigits(_, _, _)
ParseDigits(digits, acc, w) ==
  IF digits = <<>> THEN acc
  ELSE ParseDigits(Tail(digits), (acc * 10 + DigitOf(Head(digits))) % Pow2(w), w)

\* ConstantInt::get(ty, str, 10): APInt(width, str, 10). The value is taken
\* modulo 2^width, a negative one in two's complement; with assertions on,
\* APInt refuses a digit string with ((slen-1)*64)/22 > width.
ConstantIntFromString(ty, str, ndebug) ==
  LET w == ty.bits
      slen == Len(str.digits)
      mag == ParseDigits(str.digits, 0, w)
  IN  IF ~ndebug /\ ((slen - 1) * 64) \div 22 > w THEN AssertionFailed
      ELSE ConstantInt(w, IF str.neg THEN (Pow2(w) - mag) % Pow2(w) ELSE mag)

\* ConstantInt::getTrue(Type*) / getFalse(Type*): LLVM returns the i1
\* constant of the context whatever the type, and asserts the type is i1.
ConstantBool(ty, b, ndebug) ==
  IF ~ndebug /\ ty.bits # 1 THEN AssertionFailed
  ELSE ConstantInt(1, IF b THEN 1 ELSE 0)

\* exprToLlvm, lines 13-30.
exprToLlvm(ty, e, ndebug) ==
  IF e.op = "TRUE" THEN ConstantBool(ty, TRUE, ndebug)
  ELSE IF e.op = "FALSE" THEN ConstantBool(ty, FALSE, ndebug)
  ELSE IF e.op = "MPZ" THEN ConstantIntFromString(ty, get_str(e.z), ndebug)
  ELSE ConstantInt(ty.bits, 0)

\* ---- the scan of the trace, lines 37-62

\* An instruction of a trace block with its value at that step: a call
\* (CF = NullFn when indirect) or another instruction.
Instr(op, CF, V) == [op |-> op, CF |-> CF, V |-> V]

\* Lines 55-57.
Qualifies(CF) ==
  /\ CF.name # <<>>
  /\ find_first_of(CF.name, ".") = npos
  /\ CF.linkage = "external"

\* FuncValueMap[CF].push_back(V)
PushBack(map, CF, V) ==
  IF CF \in DOMAIN map
    THEN [map EXCEPT ![CF] = Append(@, V)]
    ELSE [k \in DOMAIN map \cup {CF} |-> IF k = CF THEN <<V>> ELSE map[k]]

\* Variant: the 'if (!V) continue' of line 51 is missing.
VisitInstrNoValueTest(map, ins) ==
  IF ins.op # "call" THEN map
  ELSE IF ins.CF = NullFn THEN map
  ELSE IF Qualifies(ins.CF) THEN PushBack(map, ins.CF, ins.V)
  ELSE map

\* The body of the inner loop, lines 45-60.
VisitInstr(map, ins) ==
  IF ins.op # "call" THEN map
  ELSE IF ins.CF = NullFn THEN map
  ELSE IF ins.V = NoValue THEN map
  ELSE IF Qualifies(ins.CF) THEN PushBack(map, ins.CF, ins.V)
  ELSE map

\* The inner loop, line 43: the instructions of one block, in order.
RECURSIVE VisitBlock(_, _)
VisitBlock(map, BB) ==
  IF BB = <<>> THEN map
  ELSE VisitBlock(VisitInstr(map, Head(BB)), Tail(BB))

\* The outer loop, line 40: the steps of the trace, in order.
RECURSIVE VisitTrace(_, _)
VisitTrace(map, tr) ==
  IF tr = <<>> THEN map
  ELSE VisitTrace(VisitBlock(map, Head(tr)), Tail(tr))

EmptyMap == [k \in {} |-> <<>>]

\* ---- building the harness module, lines 64-128

EmptyModule == [functions |-> <<>>, globals |-> <<>>, LastUnique |-> 0]

\* A function of the harness without a body (a declaration).
NoBody == [defined |-> FALSE, Counter |-> 0, CA |-> 0, n |-> 0,
           GetValue |-> <<>>]

\* Module::getFunction: the index of the function of that name, 0 if none.
FindFunction(M, name) ==
  LET at == { i \in 1..Len(M.functions) : M.functions[i].name = name }
  IN  IF at = {} THEN 0 ELSE CHOOSE i \in at : TRUE

\* Module::getOrInsertFunction, line 71: an existing function of that name
\* is reused, otherwise a declaration is added.
getOrInsertFunction(M, name, ty) ==
  IF FindFunction(M, name) # 0 THEN M
  ELSE [M EXCEPT !.functions =
          Append(@, [name |-> name, ret |-> ty, body |-> NoBody])]

\* The symbol table's renaming of a clashing name: the next number of
\* LastUnique is appended until the name is free (the LLVM release this code
\* builds against appends the bare number; what matters below is only that
\* the new function gets a name of its own).
RECURSIVE UniqueName(_, _, _)
UniqueName(M, name, last) ==
  LET cand == name \o Decimal(last + 1)
  IN  IF FindFunction(M, cand) = 0 THEN [name |-> cand, last |-> last + 1]
      ELSE UniqueName(M, name, last + 1)

\* Function::Create(..., name, Harness.get()), lines 121-124: always a new
\* function; a name already taken is made unique.
FunctionCreate(M, name, ty) ==
  LET u == IF FindFunction(M, name) = 0
             THEN [name |-> name, last |-> M.LastUnique]
             ELSE UniqueName(M, name, M.LastUnique)
  IN  [M EXCEPT !.functions =
                   Append(@, [name |-> u.name, ret |-> ty, body |-> NoBody]),
                !.LastUnique = u.last]

\* new GlobalVariable(*Harness, ...), lines 89-93 and 101-105. An array's
\* initializer is kept as the operands handed to ConstantArray::get, that is
\* the constants exprToLlvm returned, in order.
NewGlobal(M, constant, ty, init) ==
  [M EXCEPT !.globals =
     Append(@, [constant |-> constant, linkage |-> "private", ty |-> ty,
                init |-> init])]

ArrayType(elem, n) == [id |-> "array", elem |-> elem, n |-> n]

\* Twine("get_value_").concat(RSO.str()), lines 118-123.
GetValueName(RT) ==
  <<"g", "e", "t", "_", "v", "a", "l", "u", "e", "_">> \o TypeText(RT)

SkippingNonInteger(CF) == <<"Skipping non-integer function: ", CF.name>>

\* The stub of lines 96-127 for callee CF in module M1 (which holds HF).
BuildStub(M1, CF, values, LLVMarray) ==
  LET RT == CF.ret
      n == Len(values)
      M2 == NewGlobal(M1, TRUE, ArrayType(RT, n), LLVMarray)
      CA == Len(M2.globals)
      M3 == NewGlobal(M2, FALSE, IntegerType(32), 0)
      Counter == Len(M3.globals)
      M4 == FunctionCreate(M3, GetValueName(RT), RT)
      GetValue == M4.functions[Len(M4.functions)].name
      HF == FindFunction(M4, CF.name)
  IN  [M4 EXCEPT !.functions[HF].body =
         [defined |-> TRUE, Counter |-> Counter, CA |-> CA, n |-> n,
          GetValue |-> GetValue]]

\* Variant: the counter is created before the return type is looked at.
BuildOneCounterFirst(M, CF, values, ndebug) ==
  LET M0 == NewGlobal(M, FALSE, IntegerType(32), 0)
      M1 == getOrInsertFunction(M0, CF.name, CF.ret)
      LLVMarray == [i \in 1..Len(values) |->
                      exprToLlvm(CF.ret, values[i], ndebug)]
  IN  IF CF.ret.id # "integer"
        THEN [M |-> M1, ok |-> TRUE, errs |-> <<SkippingNonInteger(CF)>>]
      ELSE IF \E i \in 1..Len(values) : ~LLVMarray[i].ok
        THEN [M |-> M1, ok |-> FALSE, errs |-> <<>>]
      ELSE [M |-> BuildStub(M1, CF, values, LLVMarray), ok |-> TRUE,
            errs |-> <<>>]

\* One round of the loop of lines 65-128 for callee CF with its values.
BuildOne(M, CF, values, ndebug) ==
  LET M1 == getOrInsertFunction(M, CF.name, CF.ret)
      LLVMarray == [i \in 1..Len(values) |->
                      exprToLlvm(CF.ret, values[i], ndebug)]
  IN  IF CF.ret.id # "integer"
        THEN [M |-> M1, ok |-> TRUE, errs |-> <<SkippingNonInteger(CF)>>]
      ELSE IF \E i \in 1..Len(values) : ~LLVMarray[i].ok
        THEN [M |-> M1, ok |-> FALSE, errs |-> <<>>]
      ELSE [M |-> BuildStub(M1, CF, values, LLVMarray), ok |-> TRUE,
            errs |-> <<>>]

\* The loop of lines 65-128 over the map's entries in iteration order; it
\* stops at a failed assertion.
RECURSIVE BuildAll(_, _, _, _, _)
BuildAll(M, errlines, map, order, ndebug) ==
  IF order = <<>> THEN [M |-> M, ok |-> TRUE, errs |-> errlines]
  ELSE LET r == BuildOne(M, Head(order), map[Head(order)], ndebug)
       IN  IF ~r.ok THEN [M |-> r.M, ok |-> FALSE, errs |-> errlines \o r.errs]
           ELSE BuildAll(r.M, errlines \o r.errs, map, Tail(order), ndebug)

\* The orders in which a ValueMap keyed by Function* may be iterated.
Orders(S) ==
  { o \in [1..Cardinality(S) -> S] :
      \A i, j \in 1..Cardinality(S) : i # j => o[i] # o[j] }

NoCall == [fn |-> <<>>, callee |-> <<>>, index |-> 0, array |-> <<>>,
           len |-> 0, ret |-> AssertionFailed]

\* createLLVMHarness, lines 32-131.
createLLVMHarness ==
  /\ hpc = "start"
  /\ LET map == VisitTrace(EmptyMap, trace) IN
       \E order \in Orders(DOMAIN map) :
         LET r == BuildAll(EmptyModule, <<>>, map, order, NDEBUG) IN
           /\ FuncValueMap' = map
           /\ Harness' = r.M
           /\ herrs' = r.errs
           /\ hpc' = IF r.ok THEN "done" ELSE "abort"
           /\ mem' = [i \in 1..Len(r.M.globals) |-> r.M.globals[i].init]
           /\ ninv' = [i \in 1..Len(r.M.functions) |-> 0]
  /\ UNCHANGED <<trace, NDEBUG, lastCall>>
  /\ UNCHANGED bmcVars

\* ---- running the harness

RECURSIVE SumSeq(_)
SumSeq(q) == IF q = <<>> THEN 0 ELSE Head(q) + SumSeq(Tail(q))

\* A value provider get_value_<type>(index, array, len) as the stubs expect
\* it: array[index] while index < len, any value of the type after that.
GetValue(index, array, len) ==
  IF index < len THEN {array[index + 1]}
  ELSE {ConstantInt(array[1].bits, 0), ConstantInt(array[1].bits, 1)}

\* Variant: the incremented counter is passed to the provider.
StubCallPostIncrement(HF, m) ==
  LET LoadCounter == m[HF.body.Counter]
  IN  [index |-> LoadCounter + 1, array |-> m[HF.body.CA], len |-> HF.body.n,
       store |-> LoadCounter + 1]

\* The stub body of lines 107-116: the arguments it passes and the value
\* it stores back to its counter (an i32; MaxInvoke keeps it far from 2^32).
StubCall(HF, m) ==
  LET LoadCounter == m[HF.body.Counter]
  IN  [index |-> LoadCounter, array |-> m[HF.body.CA], len |-> HF.body.n,
       store |-> LoadCounter + 1]

\* One invocation of a stub of the harness, lines 107-127.
InvokeStub ==
  /\ hpc = "done"
  /\ SumSeq(ninv) < MaxInvoke
  /\ \E i \in 1..Len(Harness.functions) :
       LET HF == Harness.functions[i]
       IN  /\ HF.body.defined
           /\ LET c == StubCall(HF, mem) IN
                /\ mem' = [mem EXCEPT ![HF.body.Counter] = c.store]
                /\ \E RetValue \in GetValue(c.index, c.array, c.len) :
                     lastCall' = [fn |-> HF.name, callee |-> HF.body.GetValue,
                                  index |-> c.index, array |-> c.array,
                                  len |-> c.len, ret |-> RetValue]
           /\ ninv' = [ninv EXCEPT ![i] = @ + 1]
  /\ UNCHANGED <<trace, NDEBUG, hpc, FuncValueMap, Harness, herrs>>
  /\ UNCHANGED bmcVars

\* ---- traces

Fn(name) == CHOOSE fn \in Functions : fn.name = name

\* Trace instructions for the structure of the harness: calls to every kind
\* of callee, an indirect call, a call without a value, a non-call.
InstrsHarness ==
  { Instr("call", Fn(<<"f">>), Mpz(42)),
    Instr("call", Fn(<<"f">>), Mpz(7)),
    Instr("call", Fn(<<"f">>), NoValue),
    Instr("call", Fn(<<"g">>), Mpz(42)),
    Instr("call", Fn(<<"p">>), Mpz(42)),
    Instr("call", Fn(<<"a", ".", "b">>), Mpz(42)),
    Instr("call", Fn(<<"d">>), Mpz(42)),
    Instr("call", Fn(<<"e">>), Mpz(42)),
    Instr("call", Fn(<<>>), Mpz(42)),
    Instr("call", NullFn, Mpz(42)),
    Instr("other", NullFn, Mpz(42)) }

\* Trace instructions for the conversion of values: calls to an i8 and to an
\* i1 callee with every kind of value.
InstrsConv ==
  { Instr("call", Fn(n), v) :
      n \in {<<"f">>, <<"h">>},
      v \in {NoValue, True, False, Mpz(1), Mpz(42), Mpz(300), Mpz(0 - 1),
             Unhandled} }

\* flat cut into blocks after the positions in cuts.
RECURSIVE SplitFrom(_, _, _)
SplitFrom(flat, cuts, s) ==
  IF s > Len(flat) THEN <<>>
  ELSE LET ends == { c \in cuts : c >= s } \cup {Len(flat)}
           e == CHOOSE x \in ends : \A y \in ends : x <= y
       IN  <<SubSeq(flat, s, e)>> \o SplitFrom(flat, cuts, e + 1)

\* Traces of at most MaxInstrs instructions in non-empty blocks.
Traces(instrs) ==
  UNION { { SplitFrom(flat, cuts, 1) :
              flat \in [1..n -> instrs], cuts \in SUBSET (1..(n - 1)) } :
          n \in 0..MaxInstrs }

\* ================================================================ specifications

BmcIdle ==
  /\ F = <<[ret |-> FALSE, cp |-> TRUE, edge |-> FALSE]>>
  /\ m_engine = "mono_bmc"
  /\ m_out = FALSE
  /\ m_solve = FALSE
  /\ HAVE_CRAB_LLVM = FALSE
  /\ pc = "idle"
  /\ dst = 0
  /\ errs = <<>>
  /\ sem = 0
  /\ zctx = 0
  /\ bmc = <<>>
  /\ cps = <<>>
  /\ log = <<>>
  /\ res = "indeterminate"
  /\ outs = <<>>
  /\ stats = <<>>
  /\ ret = "none"

HarnessStart ==
  /\ hpc = "start"
  /\ FuncValueMap = EmptyMap
  /\ Harness = EmptyModule
  /\ mem = <<>>
  /\ ninv = <<>>
  /\ lastCall = NoCall
  /\ herrs = <<>>

HarnessIdle ==
  /\ trace = <<>>
  /\ NDEBUG = TRUE
  /\ hpc = "idle"
  /\ FuncValueMap = EmptyMap
  /\ Harness = EmptyModule
  /\ mem = <<>>
  /\ ninv = <<>>
  /\ lastCall = NoCall
  /\ herrs = <<>>

InitBmc ==
  /\ F \in Procedures
  /\ m_engine \in {"mono_bmc", "path_bmc"}
  /\ m_out \in BOOLEAN
  /\ m_solve \in BOOLEAN
  /\ HAVE_CRAB_LLVM \in BOOLEAN
  /\ pc = "start"
  /\ dst = 0
  /\ errs = <<>>
  /\ sem = 0
  /\ zctx = 0
  /\ bmc = <<>>
  /\ cps = <<>>
  /\ log = <<>>
  /\ res = "indeterminate"
  /\ outs = <<>>
  /\ stats = <<>>
  /\ ret = "none"
  /\ HarnessIdle

NextBmc ==
  \/ SelectCutPoints
  \/ Construct
  \/ AddCutPoints
  \/ Encode
  \/ Solve
  \/ Report

SpecBmc == InitBmc /\ [][NextBmc]_vars

InitHarness ==
  /\ trace \in Traces(InstrsHarness)
  /\ NDEBUG \in BOOLEAN
  /\ HarnessStart
  /\ BmcIdle

InitConv ==
  /\ trace \in Traces(InstrsConv)
  /\ NDEBUG \in BOOLEAN
  /\ HarnessStart
  /\ BmcIdle

NextHarness ==
  \/ createLLVMHarness
  \/ InvokeStub

SpecHarness == InitHarness /\ [][NextHarness]_vars

SpecConv == InitConv /\ [][NextHarness]_vars

\* ------------------------------------------------- properties of BmcPass

\* Block i is the first return-terminated cut-point block in layout order.
FirstReturnCp(i) ==
  /\ i \in 1..Len(F)
  /\ F[i].ret /\ F[i].cp
  /\ \A j \in 1..(i - 1) : ~(F[j].ret /\ F[j].cp)

\* Some return-terminated cut-point block has an edge from the entry.
SomeReturnReachable == \E i \in 1..Len(F) : F[i].ret /\ F[i].cp /\ F[i].edge

\* The first return-terminated cut-point block has an edge from the entry.
Analyzable == \E i \in 1..Len(F) : FirstReturnCp(i) /\ F[i].edge

\* No return-terminated block is a cut point, or the first one has no edge.
Unanalyzable ==
  \/ \A i \in 1..Len(F) : ~(F[i].ret /\ F[i].cp)
  \/ \E i \in 1..Len(F) : FirstReturnCp(i) /\ ~F[i].edge

Returned == pc = "done"

\* C4 as stated: whenever SOME return-terminated cut-point block has an edge
\* from the entry, the finished pass has built exactly one engine and has
\* registered exactly the entry and a reachable return cut point.
C4_AnyReachableReturn ==
  (SomeReturnReachable /\ Returned) =>
     /\ Len(bmc) = 1
     /\ Len(cps) = 2
     /\ cps[1] = 1
     /\ F[cps[2]].ret /\ F[cps[2]].cp /\ F[cps[2]].edge

\* C4 amended: when the FIRST return-terminated cut-point block (layout
\* order) has an edge from the entry, exactly one engine is built and exactly
\* two cut points, the entry and that block, are registered, and this is so
\* before any encode call; never more than one engine or two cut points.
C4_FirstReturnRegistered ==
  /\ Len(bmc) <= 1
  /\ Len(cps) <= 2
  /\ \A i \in 1..Len(F) :
       (FirstReturnCp(i) /\ F[i].edge /\ (log # <<>> \/ Returned)) =>
          /\ Len(bmc) = 1
          /\ cps = <<1, i>>

\* C4 witness: a finished run on a procedure with two return-terminated
\* cut-point blocks where the first one was registered.
C4_Witness ==
  /\ Returned
  /\ Cardinality({ i \in 1..Len(F) : F[i].ret /\ F[i].cp }) >= 2
  /\ \E i \in 2..Len(F) : FirstReturnCp(i) /\ cps = <<1, i>>
  /\ Len(bmc) = 1

\* C5: on a procedure with no reachable return checkpoint the pass warns and
\* returns false, and it never constructs the semantics, the solver context
\* or an engine, never encodes or solves, prints no verdict and records no
\* Result fact.
C5_UnanalyzableSkipped ==
  Unanalyzable =>
     /\ sem = 0 /\ zctx = 0 /\ bmc = <<>> /\ cps = <<>>
     /\ log = <<>> /\ outs = <<>> /\ stats = <<>>
     /\ pc \in {"start", "done"}
     /\ Returned => (errs = <<NeverReturns>> /\ ret = FALSE)

\* C5 witness: a finished run whose chosen return cut point has no edge from
\* the entry although a later return cut point has one.
C5_Witness ==
  /\ Returned
  /\ \E i \in 1..Len(F) : FirstReturnCp(i) /\ ~F[i].edge
  /\ SomeReturnReachable
  /\ errs = <<NeverReturns>>
  /\ ret = FALSE

Solved == \E k \in 1..Len(log) : log[k] = "solve"

\* C6: once the solver was invoked and the pass has returned, outs() holds
\* exactly one line, sat / unsat / unknown for a true / false / indeterminate
\* result, the Result fact is FALSE exactly for sat and TRUE exactly for
\* unsat, none for unknown; the pass returns false in every case.
C6_VerdictLine ==
  /\ Returned => ret = FALSE
  /\ (Returned /\ Solved) =>
       /\ res = "true" => (outs = <<"sat", "\n">>
                           /\ stats = <<<<"Result", "FALSE">>>>)
       /\ res = "false" => (outs = <<"unsat", "\n">>
                            /\ stats = <<<<"Result", "TRUE">>>>)
       /\ res = "indeterminate" => (outs = <<"unknown", "\n">>
                                    /\ stats = <<>>)

\* C6 witness: a finished run whose solver answered indeterminate.
C6_Witness ==
  /\ Returned /\ Solved
  /\ res = "indeterminate"
  /\ outs = <<"unknown", "\n">>
  /\ stats = <<>>

Serialized == \E k \in 1..Len(log) : log[k] = "toSmtLib"

\* C7 as stated: every encode-only run on an analyzable procedure encodes and
\* serializes the encoding, and never solves.
C7_AlwaysSerialized ==
  (~m_solve /\ Analyzable /\ Returned) =>
     /\ log # <<>> /\ log[1] = "encode"
     /\ Serialized
     /\ ~Solved /\ outs = <<>> /\ stats = <<>>

\* C7 amended: an encode-only run on an analyzable procedure encodes, and
\* serializes the encoding exactly when the pass was given an output sink;
\* no run with the solve flag false solves, prints a verdict or records a
\* Result fact.
C7_EncodeOnly ==
  ~m_solve =>
     /\ ~Solved /\ outs = <<>> /\ stats = <<>>
     /\ (Analyzable /\ Returned) =>
          log = (IF m_out THEN <<"encode", "toSmtLib">> ELSE <<"encode">>)

\* C7 witness: a finished encode-only run with a sink that serialized.
C7_Witness ==
  /\ ~m_solve /\ m_out /\ Analyzable /\ Returned
  /\ log = <<"encode", "toSmtLib">>

\* ------------------------------------------------- properties of Harness

HarnessDone == hpc = "done"

RECURSIVE Flatten(_)
Flatten(tr) == IF tr = <<>> THEN <<>> ELSE Head(tr) \o Flatten(Tail(tr))

IsEvaluableCallTo(CF, ins) == ins.op = "call" /\ ins.CF = CF /\ ins.V # NoValue

RECURSIVE Keep(_, _)
Keep(q, CF) ==
  IF q = <<>> THEN <<>>
  ELSE IF IsEvaluableCallTo(CF, Head(q))
         THEN <<Head(q).V>> \o Keep(Tail(q), CF)
         ELSE Keep(Tail(q), CF)

\* The values of the direct calls to CF that have a value, by increasing
\* trace step and, within a step, by instruction order.
EvaluableValues(CF) == Keep(Flatten(trace), CF)

\* The indices of the harness functions that have a body (the stubs).
Stubs == { i \in 1..Len(Harness.functions) : Harness.functions[i].body.defined }

\* The analysed module's function a stub stands for.
CalleeOf(i) == Fn(Harness.functions[i].name)

\* C1: in the returned harness the constant array of every stubbed F holds
\* exactly the converted values of the evaluable direct calls to F, in trace
\* order, and the array length and the length constant passed to the value
\* provider both equal the number of those calls.
C1_ArrayIsEvaluableCalls ==
  HarnessDone =>
    \A i \in Stubs :
      LET body == Harness.functions[i].body
          CA == Harness.globals[body.CA]
          CF == CalleeOf(i)
          vs == EvaluableValues(CF)
      IN  /\ CA.constant
          /\ CA.ty = ArrayType(CF.ret, Len(vs))
          /\ CA.init = [j \in 1..Len(vs) |-> exprToLlvm(CF.ret, vs[j], NDEBUG)]
          /\ body.n = Len(vs)

\* C1 witness: f is called at two steps with two different values and its
\* array holds both, in step order.
C1_Witness ==
  /\ HarnessDone
  /\ Len(trace) = 2
  /\ \E i \in Stubs :
       /\ Harness.functions[i].name = <<"f">>
       /\ Harness.globals[Harness.functions[i].body.CA].init
            = <<ConstantInt(8, 42), ConstantInt(8, 7)>>

\* C2: every stub's counter starts at 0 and always holds the number of
\* invocations so far; the k-th invocation (from 0) passes k, the stub's
\* array and its length n to the stub's provider, also when k >= n, and for
\* k < n the value returned is the k-th recorded value, converted.
C2_CounterDrivesStub ==
  HarnessDone =>
    /\ \A i \in Stubs :
         LET body == Harness.functions[i].body
         IN  /\ Harness.globals[body.Counter].init = 0
             /\ ~Harness.globals[body.Counter].constant
             /\ mem[body.Counter] = ninv[i]
    /\ lastCall # NoCall =>
         LET i == FindFunction(Harness, lastCall.fn)
             body == Harness.functions[i].body
             CF == CalleeOf(i)
             vs == EvaluableValues(CF)
         IN  /\ i \in Stubs
             /\ lastCall.callee = body.GetValue
             /\ lastCall.index = ninv[i] - 1
             /\ lastCall.array = Harness.globals[body.CA].init
             /\ lastCall.len = Len(vs)
             /\ lastCall.index < Len(vs) =>
                  lastCall.ret = exprToLlvm(CF.ret, vs[lastCall.index + 1], NDEBUG)

\* C2 witness: the third invocation of the stub of f, recorded as 42, 7:
\* index 2 is passed with length 2 and the counter becomes 3.
C2_Witness ==
  /\ HarnessDone
  /\ lastCall.fn = <<"f">>
  /\ lastCall.array = <<ConstantInt(8, 42), ConstantInt(8, 7)>>
  /\ lastCall.len = 2
  /\ lastCall.index = 2
  /\ \E i \in Stubs : Harness.functions[i].name = <<"f">>
                      /\ mem[Harness.functions[i].body.Counter] = 3

\* C3: a function that has a body in the analysed module, or whose name
\* contains '.', never gets values recorded and never appears in the harness.
C3_DefinedOrDottedNeverAppears ==
  HarnessDone =>
    \A fn \in Functions :
      (fn.body \/ \E k \in 1..Len(fn.name) : fn.name[k] = ".") =>
         /\ fn \notin DOMAIN FuncValueMap
         /\ FindFunction(Harness, fn.name) = 0

\* The callees with recorded values whose return type is not an integer.
NonIntegerCallees == { CF \in DOMAIN FuncValueMap : CF.ret.id # "integer" }

\* C9 as stated: the harness holds nothing for a callee with recorded values
\* and a non-integer return type, not even a function of that name; stubs
\* exist only for callees with an integer return type.
C9_NothingForNonInteger ==
  HarnessDone =>
    /\ \A CF \in NonIntegerCallees : FindFunction(Harness, CF.name) = 0
    /\ \A i \in Stubs : CalleeOf(i).ret.id = "integer"

\* C9 amended: for a callee with recorded values and a non-integer return
\* type the harness holds only a declaration of that name, without a body,
\* and a diagnostic is written; no array and no counter is made for it (the
\* globals are one array and one counter per stub); stubs exist exactly for
\* the recorded callees with an integer return type.
C9_NonIntegerOnlyDeclared ==
  HarnessDone =>
    /\ \A CF \in NonIntegerCallees :
         /\ Cardinality({ i \in 1..Len(Harness.functions) :
                            Harness.functions[i].name = CF.name }) = 1
         /\ ~Harness.functions[FindFunction(Harness, CF.name)].body.defined
         /\ \E k \in 1..Len(herrs) : herrs[k] = SkippingNonInteger(CF)
    /\ Len(Harness.globals) = 2 * Cardinality(Stubs)
    /\ { CalleeOf(i) : i \in Stubs } = (DOMAIN FuncValueMap) \ NonIntegerCallees

\* C9 witness: p (float) and f (i8) both have recorded values; the harness
\* declares p without a body and defines the stub of f.
C9_Witness ==
  /\ HarnessDone
  /\ Fn(<<"p">>) \in DOMAIN FuncValueMap
  /\ FindFunction(Harness, <<"p">>) # 0
  /\ ~Harness.functions[FindFunction(Harness, <<"p">>)].body.defined
  /\ FindFunction(Harness, <<"f">>) \in Stubs
  /\ Len(Harness.globals) = 2

\* The value providers: the body-less functions the stubs call.
Providers ==
  { i \in 1..Len(Harness.functions) :
      \E j \in Stubs : Harness.functions[j].body.GetValue
                         = Harness.functions[i].name }

\* C10: the harness declares exactly one value provider per distinct return
\* type among the stubbed callees, named get_value_<type>, and stubbed
\* callees with the same return type call the same provider. Stated for the
\* traces on which every stubbed callee is a mere declaration of the
\* analysed module.
C10_OneProviderPerType ==
  (HarnessDone /\ \A j \in Stubs : ~CalleeOf(j).body) =>
    /\ Cardinality(Providers) = Cardinality({ CalleeOf(j).ret : j \in Stubs })
    /\ \A i \in Providers : ~Harness.functions[i].body.defined
    /\ \A j \in Stubs :
         Harness.functions[j].body.GetValue = GetValueName(CalleeOf(j).ret)
    /\ \A j, k \in Stubs :
         CalleeOf(j).ret = CalleeOf(k).ret =>
           Harness.functions[j].body.GetValue = Harness.functions[k].body.GetValue

\* C8: every constant exprToLlvm returned for a recorded value (the operands
\* of a stub's array initializer) is of the callee's return width w: 1 for
\* boolean true, 0 for boolean false, d (modulo 2^w) for an integer literal
\* d, 0 for any other value.
C8_ConstantOfReturnWidth ==
  HarnessDone =>
    \A i \in Stubs :
      LET CF == CalleeOf(i)
          w == CF.ret.bits
          vs == FuncValueMap[CF]
          arr == Harness.globals[Harness.functions[i].body.CA].init
      IN  \A j \in 1..Len(vs) :
            /\ arr[j].bits = w
            /\ arr[j].val = (CASE vs[j].op = "TRUE" -> 1
                               [] vs[j].op = "FALSE" -> 0
                               [] vs[j].op = "MPZ" -> vs[j].z % Pow2(w)
                               [] OTHER -> 0)

====
